---- MODULE Spec2Model ----
(***************************************************************************)
(* MisterHR: the relational schema with its row-level-security policies,   *)
(* the frontend pages (register wizard, resume upload, dashboard) and the  *)
(* resume-generation orchestration, as state machines.                     *)
(***************************************************************************)
EXTENDS Integers, Sequences, FiniteSets, Bags, TLC

(***************************************************************************)
(* Bounds of the model.                                                    *)
(***************************************************************************)
MaxUsers == 2
MaxJobs == 1
MaxApps == 1
MaxProfiles == 2
MaxRuns == 2        \* uploadFile invocations suspended at the same time
MaxSubmits == 1     \* handleSubmit invocations suspended at the same time
ScoreUnit == 2      \* steps per point of the dashboard's optimizationScore

VARIABLES
    users,          \* table users:        set of rows [id, role]
    profiles,       \* table profiles:     set of rows [id, user_id, personal_info, education]
    jobs,           \* table jobs:         set of rows [id, user_id, status]
    applications,   \* table applications: set of rows [id, applicant_id, job_id, status]
    actor,          \* session whose statement last changed the database: its auth.uid(), or SERVICE
    \* the browser
    route,          \* path of the page on screen
    navigation,     \* how the browser got there: "load", "link" (<Link>) or "push" (router.push)
    session,        \* the visitor's authentication
    orphans,        \* suspended handlers of pages since unmounted: [handleSubmit, uploadFile] -> count
    \* RegisterPage (useState)
    step, isLoading, showPassword, registerError, selectedRole, formData,
    pendingSubmit,  \* the suspended handleSubmit of the mounted page: << >> or <<formData it validated>>
    \* ResumeUploadPage (useState)
    file, uploadState, uploadProgress, uploadError, processingStatus,
    runs,           \* the suspended uploadFile invocations of the mounted page: bag of [phase, i]
    \* DashboardPage (useState)
    stats,          \* [resumesAnalyzed, matchesGenerated, optimizationScore, lastActivity]
    \* resume generation
    orch,           \* the orchestrator: "idle" or "running"
    called,         \* agents the orchestrator has called for the request
    returned,       \* agents that have returned their result to the orchestrator
    results,        \* agent -> "none", "llm" or "fallback"
    failures,       \* agent -> failed LLM attempts
    llmAvailable,   \* the primary LLM answers calls
    response        \* "none" or "sent": the response to the frontend

dbvars == <<users, profiles, jobs, applications, actor>>
browservars == <<route, navigation, session, orphans>>
registervars == <<step, isLoading, showPassword, registerError, selectedRole, formData, pendingSubmit>>
uploadvars == <<file, uploadState, uploadProgress, uploadError, processingStatus, runs>>
dashboardvars == <<stats>>
uivars == <<browservars, registervars, uploadvars, dashboardvars>>
agentvars == <<orch, called, returned, results, failures, llmAvailable, response>>

vars == <<dbvars, uivars, agentvars>>

(***************************************************************************)
(* SQL values.  NULL is 0 for uuid columns and "NULL" for varchar columns; *)
(* a comparison with NULL is unknown, and a policy, a CHECK or an IF       *)
(* treats unknown in its own way (see SqlTrue, CheckPasses).               *)
(***************************************************************************)
NULL == 0
NULLS == "NULL"
DEFAULT == "DEFAULT"

UserIds == 1..MaxUsers
JobIds == 1..MaxJobs
AppIds == 1..MaxApps
ProfileIds == 1..MaxProfiles

\* the service role (Supabase Auth, maintenance jobs): no auth.uid(), bypasses RLS
SERVICE == NULL
Actors == UserIds \cup {SERVICE}

\* three-valued logic: "t", "f", "u" (unknown)
SqlEq(a, b) == IF a = NULL \/ b = NULL THEN "u" ELSE IF a = b THEN "t" ELSE "f"
SqlEqS(a, b) == IF a = NULLS \/ b = NULLS THEN "u" ELSE IF a = b THEN "t" ELSE "f"
SqlIn(a, S) == IF a = NULLS THEN "u" ELSE IF a \in S THEN "t" ELSE "f"
SqlAnd(p, q) == IF p = "f" \/ q = "f" THEN "f" ELSE IF p = "t" /\ q = "t" THEN "t" ELSE "u"
SqlNot(p) == IF p = "t" THEN "f" ELSE IF p = "f" THEN "t" ELSE "u"
\* a row passes a policy's USING / WITH CHECK, and an IF branch is taken, only on true
SqlTrue(p) == p = "t"
\* a CHECK constraint rejects a row only on false
CheckPasses(p) == p # "f"

(***************************************************************************)
(* The schema: column domains, CHECK constraints, defaults.                *)
(***************************************************************************)
Roles == {"applicant", "recruiter"}
JobStatuses == {"active", "filled", "closed"}
AppStatuses == {"submitted", "reviewed", "shortlisted", "rejected", "offered", "hired"}

UsersRoleCheck(role) == role # NULLS /\ CheckPasses(SqlIn(role, Roles))
JobsStatusCheck(status) == CheckPasses(SqlIn(status, JobStatuses))
JobsStatusDefault(status) == IF status = DEFAULT THEN "active" ELSE status
AppsStatusCheck(status) == CheckPasses(SqlIn(status, AppStatuses))
AppsStatusDefault(status) == IF status = DEFAULT THEN "submitted" ELSE status

\* REFERENCES users(id) / jobs(id): a non-null key must name an existing row
UserExists(id) == \E u \in users : u.id = id
JobExists(id) == \E j \in jobs : j.id = id
FkUser(id) == id = NULL \/ UserExists(id)
FkJob(id) == id = NULL \/ JobExists(id)

\* gen_random_uuid(): a key no row of the table holds
FreshId(table, Ids) == CHOOSE i \in Ids : (\A r \in table : r.id # i) /\
                          (\A k \in Ids : (\A r \in table : r.id # k) => i <= k)
HasFreshId(table, Ids) == \E i \in Ids : \A r \in table : r.id # i

\* jsonb values of profiles: NULL, or a value with a type and (for an object) its keys
JsonNull == [isnull |-> TRUE, type |-> "null", keys |-> {}]
JsonObject(ks) == [isnull |-> FALSE, type |-> "object", keys |-> ks]
JsonArray == [isnull |-> FALSE, type |-> "array", keys |-> {}]
\* NEW.personal_info ? 'key'
JsonHasKey(v, k) == IF v.isnull THEN "u" ELSE IF v.type = "object" /\ k \in v.keys THEN "t" ELSE "f"
\* jsonb_typeof(v) = 'array'
JsonIsArray(v) == IF v.isnull THEN "u" ELSE IF v.type = "array" THEN "t" ELSE "f"

\* validate_profile_data(): TRUE when the trigger returns NEW, FALSE when it raises
validate_profile_data(new) ==
    /\ ~SqlTrue(SqlNot(SqlAnd(JsonHasKey(new.personal_info, "name"),
                              JsonHasKey(new.personal_info, "contact"))))
    /\ ~SqlTrue(SqlNot(JsonIsArray(new.education)))

(***************************************************************************)
(* Row-level-security policies.  uid is auth.uid().  A subquery inside a   *)
(* policy reads the other table through that table's own policies, so the  *)
(* EXISTS clauses range over the rows visible to uid.                      *)
(***************************************************************************)
\* "Users can view own profile" ON users FOR SELECT
UsersSelectUsing(uid, u) == SqlTrue(SqlEq(uid, u.id))
\* "Users can update own profile" ON users FOR UPDATE
UsersUpdateUsing(uid, u) == SqlTrue(SqlEq(uid, u.id))
VisibleUsers(uid) == {u \in users : UsersSelectUsing(uid, u)}

\* (mutation) profiles opened to every recruiter
ProfilesSelectUsing_Recruiters(uid, p) ==
    \/ SqlTrue(SqlEq(uid, p.user_id))
    \/ \E u \in VisibleUsers(uid) : u.role = "recruiter"
\* "Applicants can view own profile" ON profiles FOR SELECT
ProfilesSelectUsing(uid, p) == SqlTrue(SqlEq(uid, p.user_id))
\* "Applicants can update own profile" ON profiles FOR UPDATE
ProfilesUpdateUsing(uid, p) == SqlTrue(SqlEq(uid, p.user_id))
\* "Applicants can create own profile" ON profiles FOR INSERT WITH CHECK
ProfilesInsertCheck(uid, p) == SqlTrue(SqlEq(uid, p.user_id))
VisibleProfiles(uid) == {p \in profiles : ProfilesSelectUsing(uid, p)}

\* "Recruiters can view all jobs" ON jobs FOR SELECT
JobsRecruiterUsing(uid, j) ==
    \E u \in VisibleUsers(uid) : SqlTrue(SqlAnd(SqlEq(u.id, uid), SqlEqS(u.role, "recruiter")))
\* (mutation) the edit policy tests the role instead of the ownership
JobsOwnUsing_AnyRecruiter(uid, j) == JobsRecruiterUsing(uid, j)
\* "Recruiters can edit own jobs" ON jobs FOR ALL: SELECT, INSERT, UPDATE and DELETE
JobsOwnUsing(uid, j) == SqlTrue(SqlEq(uid, j.user_id))
\* (mutation) the FOR ALL policy declared for writes only: SELECT is left to the recruiter policy
JobsSelectUsing_RecruiterOnly(uid, j) == JobsRecruiterUsing(uid, j)
\* permissive policies of one command are OR-ed
JobsSelectUsing(uid, j) == JobsRecruiterUsing(uid, j) \/ JobsOwnUsing(uid, j)
VisibleJobs(uid) == {j \in jobs : JobsSelectUsing(uid, j)}

\* EXISTS (SELECT 1 FROM jobs WHERE jobs.id = applications.job_id AND jobs.user_id = auth.uid())
OwnsJobOf(uid, a) ==
    \E j \in VisibleJobs(uid) : SqlTrue(SqlAnd(SqlEq(j.id, a.job_id), SqlEq(j.user_id, uid)))
\* "Users can view relevant applications" ON applications FOR SELECT
AppsSelectUsing(uid, a) == SqlTrue(SqlEq(uid, a.applicant_id)) \/ OwnsJobOf(uid, a)
\* "Applicants can create applications" ON applications FOR INSERT WITH CHECK
AppsInsertCheck(uid, a) == SqlTrue(SqlEq(uid, a.applicant_id))
\* (mutation) the update policy copies the SELECT policy, so applicants update too
AppsUpdateUsing_AsSelect(uid, a) == AppsSelectUsing(uid, a)
\* "Recruiters can update application status" ON applications FOR UPDATE
AppsUpdateUsing(uid, a) == OwnsJobOf(uid, a)
VisibleApplications(uid) == {a \in applications : AppsSelectUsing(uid, a)}

\* The service role bypasses RLS; for anyone else a command without a policy is denied.
Bypass(a) == a = SERVICE
NoPolicy == FALSE

(***************************************************************************)
(* Statements.  Each is enabled when the database accepts it (policies,    *)
(* constraints, trigger); a statement the database rejects, or one whose   *)
(* target row its USING clause hides, changes nothing.                     *)
(***************************************************************************)
\* ---- users ----
\* INSERT INTO users (id, role) VALUES (id, role)
InsertUser(a, id, role) ==
    /\ Bypass(a) \/ NoPolicy
    /\ ~UserExists(id)
    /\ UsersRoleCheck(role)
    /\ users' = users \cup {[id |-> id, role |-> role]}
    /\ actor' = a
    /\ UNCHANGED <<uivars, agentvars>>
    /\ UNCHANGED <<profiles, jobs, applications>>

\* UPDATE users SET role = .. WHERE id = old.id
UpdateUser(a, old, role) ==
    /\ old \in users
    /\ Bypass(a) \/ UsersUpdateUsing(a, old)
    /\ LET new == [id |-> old.id, role |-> role]
       IN  /\ Bypass(a) \/ UsersUpdateUsing(a, new)
           /\ UsersRoleCheck(role)
           /\ users' = (users \ {old}) \cup {new}
    /\ actor' = a
    /\ UNCHANGED <<uivars, agentvars>>
    /\ UNCHANGED <<profiles, jobs, applications>>

\* (mutation) the references to users declared without ON DELETE CASCADE and unchecked
DeleteUser_NoCascade(a, old) ==
    /\ old \in users
    /\ Bypass(a) \/ NoPolicy
    /\ users' = users \ {old}
    /\ actor' = a
    /\ UNCHANGED <<profiles, jobs, applications>>
    /\ UNCHANGED <<uivars, agentvars>>

\* DELETE FROM users WHERE id = old.id; ON DELETE CASCADE takes the profiles, jobs
\* and applications of the user, and the applications to the jobs that go with it
DeleteUser(a, old) ==
    /\ old \in users
    /\ Bypass(a) \/ NoPolicy
    /\ LET gone == {j.id : j \in {k \in jobs : k.user_id = old.id}}
       IN  /\ users' = users \ {old}
           /\ profiles' = {p \in profiles : p.user_id # old.id}
           /\ jobs' = {j \in jobs : j.user_id # old.id}
           /\ applications' = {x \in applications :
                                   x.applicant_id # old.id /\ x.job_id \notin gone}
    /\ actor' = a
    /\ UNCHANGED <<uivars, agentvars>>

\* ---- profiles ----
InsertProfile(a, user_id, personal_info, education) ==
    /\ HasFreshId(profiles, ProfileIds)
    /\ LET new == [id |-> FreshId(profiles, ProfileIds), user_id |-> user_id,
                   personal_info |-> personal_info, education |-> education]
       IN  /\ Bypass(a) \/ ProfilesInsertCheck(a, new)
           /\ validate_profile_data(new)
           /\ FkUser(user_id)
           /\ profiles' = profiles \cup {new}
    /\ actor' = a
    /\ UNCHANGED <<uivars, agentvars>>
    /\ UNCHANGED <<users, jobs, applications>>

UpdateProfile(a, old, user_id, personal_info, education) ==
    /\ old \in profiles
    /\ Bypass(a) \/ ProfilesUpdateUsing(a, old)
    /\ LET new == [id |-> old.id, user_id |-> user_id,
                   personal_info |-> personal_info, education |-> education]
       IN  /\ Bypass(a) \/ ProfilesUpdateUsing(a, new)
           /\ validate_profile_data(new)
           /\ FkUser(user_id)
           /\ profiles' = (profiles \ {old}) \cup {new}
    /\ actor' = a
    /\ UNCHANGED <<uivars, agentvars>>
    /\ UNCHANGED <<users, jobs, applications>>

DeleteProfile(a, old) ==
    /\ old \in profiles
    /\ Bypass(a) \/ NoPolicy
    /\ profiles' = profiles \ {old}
    /\ actor' = a
    /\ UNCHANGED <<uivars, agentvars>>
    /\ UNCHANGED <<users, jobs, applications>>

\* ---- jobs ----
InsertJob(a, user_id, status) ==
    /\ HasFreshId(jobs, JobIds)
    /\ LET new == [id |-> FreshId(jobs, JobIds), user_id |-> user_id,
                   status |-> JobsStatusDefault(status)]
       IN  /\ Bypass(a) \/ JobsOwnUsing(a, new)
           /\ JobsStatusCheck(new.status)
           /\ FkUser(user_id)
           /\ jobs' = jobs \cup {new}
    /\ actor' = a
    /\ UNCHANGED <<uivars, agentvars>>
    /\ UNCHANGED <<users, profiles, applications>>

UpdateJob(a, old, user_id, status) ==
    /\ old \in jobs
    /\ status # DEFAULT
    /\ Bypass(a) \/ JobsOwnUsing(a, old)
    /\ LET new == [id |-> old.id, user_id |-> user_id, status |-> status]
       IN  /\ Bypass(a) \/ JobsOwnUsing(a, new)
           /\ JobsStatusCheck(status)
           /\ FkUser(user_id)
           /\ jobs' = (jobs \ {old}) \cup {new}
    /\ actor' = a
    /\ UNCHANGED <<uivars, agentvars>>
    /\ UNCHANGED <<users, profiles, applications>>

\* DELETE FROM jobs WHERE id = old.id; ON DELETE CASCADE takes the applications to it
DeleteJob(a, old) ==
    /\ old \in jobs
    /\ Bypass(a) \/ JobsOwnUsing(a, old)
    /\ jobs' = jobs \ {old}
    /\ applications' = {x \in applications : x.job_id # old.id}
    /\ actor' = a
    /\ UNCHANGED <<uivars, agentvars>>
    /\ UNCHANGED <<users, profiles>>

\* ---- applications ----
InsertApplication(a, applicant_id, job_id, status) ==
    /\ HasFreshId(applications, AppIds)
    /\ LET new == [id |-> FreshId(applications, AppIds), applicant_id |-> applicant_id,
                   job_id |-> job_id, status |-> AppsStatusDefault(status)]
       IN  /\ Bypass(a) \/ AppsInsertCheck(a, new)
           /\ AppsStatusCheck(new.status)
           /\ FkUser(applicant_id)
           /\ FkJob(job_id)
           /\ applications' = applications \cup {new}
    /\ actor' = a
    /\ UNCHANGED <<uivars, agentvars>>
    /\ UNCHANGED <<users, profiles, jobs>>

UpdateApplication(a, old, applicant_id, job_id, status) ==
    /\ old \in applications
    /\ status # DEFAULT
    /\ Bypass(a) \/ AppsUpdateUsing(a, old)
    /\ LET new == [id |-> old.id, applicant_id |-> applicant_id,
                   job_id |-> job_id, status |-> status]
       IN  /\ Bypass(a) \/ AppsUpdateUsing(a, new)
           /\ AppsStatusCheck(status)
           /\ FkUser(applicant_id)
           /\ FkJob(job_id)
           /\ applications' = (applications \ {old}) \cup {new}
    /\ actor' = a
    /\ UNCHANGED <<uivars, agentvars>>
    /\ UNCHANGED <<users, profiles, jobs>>

DeleteApplication(a, old) ==
    /\ old \in applications
    /\ Bypass(a) \/ NoPolicy
    /\ applications' = applications \ {old}
    /\ actor' = a
    /\ UNCHANGED <<uivars, agentvars>>
    /\ UNCHANGED <<users, profiles, jobs>>

InitDB ==
    /\ users = {}
    /\ profiles = {}
    /\ jobs = {}
    /\ applications = {}
    /\ actor = SERVICE

(***************************************************************************)
(* Inputs of the statements.                                               *)
(***************************************************************************)
RoleInputs == Roles \cup {"admin"}
UserRefs == UserIds \cup {NULL}
JobRefs == JobIds \cup {NULL}

\* The service role runs the statements no policy grants (accounts are created
\* and deleted by the auth service, rows are purged by retention jobs); every
\* other statement is run by an authenticated session, whose auth.uid() need
\* not have a users row.
UsersStatements ==
    \/ \E id \in UserIds, role \in RoleInputs, a \in Actors : InsertUser(a, id, role)
    \/ \E old \in users, a \in UserIds, role \in RoleInputs : UpdateUser(a, old, role)
    \/ \E old \in users, a \in Actors : DeleteUser(a, old)

\* users, jobs and applications under their policies; every status is the default
NextRLS ==
    \/ UsersStatements
    \/ \E a \in UserIds, u \in UserRefs : InsertJob(a, u, DEFAULT)
    \/ \E old \in jobs, a \in UserIds : DeleteJob(a, old)
    \/ \E a \in UserIds, u \in UserRefs, j \in JobRefs : InsertApplication(a, u, j, DEFAULT)
    \/ \E old \in applications, a \in UserIds, u \in UserRefs, j \in JobRefs :
          UpdateApplication(a, old, u, j, old.status)
    \/ \E old \in applications, a \in Actors : DeleteApplication(a, old)

\* users and jobs under their policies
JobStatusInputs == {DEFAULT, NULLS, "closed", "draft"}
NextJobs ==
    \/ UsersStatements
    \/ \E a \in UserIds, u \in UserRefs, st \in JobStatusInputs : InsertJob(a, u, st)
    \/ \E old \in jobs, a \in UserIds, u \in UserRefs, st \in JobStatusInputs :
          UpdateJob(a, old, u, st)
    \/ \E old \in jobs, a \in UserIds : DeleteJob(a, old)

\* users and profiles under their policies
PersonalInfoInputs == {JsonObject({"name"}), JsonObject({"name", "contact"})}
EducationInputs == {JsonNull, JsonArray, JsonObject({})}
NextProfiles ==
    \/ UsersStatements
    \/ \E a \in UserIds, u \in UserRefs, pi \in PersonalInfoInputs, ed \in EducationInputs :
          InsertProfile(a, u, pi, ed)
    \/ \E old \in profiles, a \in UserIds, u \in UserRefs,
          pi \in PersonalInfoInputs, ed \in EducationInputs : UpdateProfile(a, old, u, pi, ed)
    \/ \E old \in profiles, a \in Actors : DeleteProfile(a, old)

\* the four tables and their references; every profile is a valid one, every
\* status is the default, every account is an applicant's
NextCascade ==
    \/ \E id \in UserIds : InsertUser(SERVICE, id, "applicant")
    \/ \E old \in users : DeleteUser(SERVICE, old)
    \/ \E a \in UserIds, u \in UserRefs :
          InsertProfile(a, u, JsonObject({"name", "contact"}), JsonArray)
    \/ \E a \in UserIds, u \in UserRefs : InsertJob(a, u, DEFAULT)
    \/ \E old \in jobs, a \in UserIds : DeleteJob(a, old)
    \/ \E a \in UserIds, u \in UserRefs, j \in JobRefs : InsertApplication(a, u, j, DEFAULT)

(***************************************************************************)
(* The frontend.  A page's state lives while the page is mounted: a        *)
(* navigation unmounts the page on screen and discards its state, and the  *)
(* next visit mounts the page with its useState initial values.  An async  *)
(* handler suspended at an await, or a timer, outlives its page: after the *)
(* unmount its setState calls show nowhere, its router.push still          *)
(* navigates.  router.push and <Link> keep the timers; loading a URL in    *)
(* the browser starts afresh.  A navigation completes in the step that     *)
(* asks for it.                                                            *)
(***************************************************************************)
null == "null"

PublicRoutes == {"/", "/auth/register", "/auth/login"}
ProtectedRoutes == {"/dashboard", "/resume/upload"}
quickActions == {"/resume/upload", "/job/analyze", "/match/generate", "/analytics"}
Routes ==
    PublicRoutes \cup ProtectedRoutes \cup quickActions
        \cup {"/settings", "/resume/analyze", "/demo"}

NoOrphans == [handleSubmit |-> 0, uploadFile |-> 0]
Orphaned(submits, uploads) ==
    [handleSubmit |-> orphans.handleSubmit + submits,
     uploadFile |-> orphans.uploadFile + uploads]

\* RegisterPage: useState initial values
formData0 ==
    [firstName |-> "", lastName |-> "", email |-> "", password |-> "", confirmPassword |-> ""]
RegisterPageInit ==
    /\ step = "role"
    /\ isLoading = FALSE
    /\ showPassword = FALSE
    /\ registerError = ""
    /\ selectedRole = null
    /\ formData = formData0
    /\ pendingSubmit = << >>
RegisterPageUnmount ==
    /\ step' = "role"
    /\ isLoading' = FALSE
    /\ showPassword' = FALSE
    /\ registerError' = ""
    /\ selectedRole' = null
    /\ formData' = formData0
    /\ pendingSubmit' = << >>

\* ResumeUploadPage: useState initial values
nullFile == [type |-> "null", size |-> 0]
ResumeUploadPageInit ==
    /\ file = nullFile
    /\ uploadState = "idle"
    /\ uploadProgress = 0
    /\ uploadError = ""
    /\ processingStatus = ""
    /\ runs = EmptyBag
ResumeUploadPageUnmount ==
    /\ file' = nullFile
    /\ uploadState' = "idle"
    /\ uploadProgress' = 0
    /\ uploadError' = ""
    /\ processingStatus' = ""
    /\ runs' = EmptyBag

\* DashboardPage: useState(mockUser.stats).  The score is a float that
\* Math.random() moves by any amount in [0, 2): it is kept in steps of
\* 1 / ScoreUnit of a point.
mockUser ==
    [role |-> "applicant",
     stats |-> [resumesAnalyzed |-> 3, matchesGenerated |-> 15,
                optimizationScore |-> 87 * ScoreUnit, lastActivity |-> "2 hours ago"]]
DashboardPageInit == stats = mockUser.stats
DashboardPageUnmount == stats' = mockUser.stats

\* The browser shows url; left are the suspended handlers that go on running.
Navigate(url, kind, left) ==
    /\ route' = url
    /\ navigation' = kind
    /\ orphans' = left
    /\ RegisterPageUnmount
    /\ ResumeUploadPageUnmount
    /\ DashboardPageUnmount
    /\ UNCHANGED <<session, dbvars, agentvars>>

\* The visitor opens url in the browser (address bar, bookmark, reload).  No
\* page, layout or middleware of the application asks for a session first.
Visit(url) == Navigate(url, "load", NoOrphans)

\* page.tsx: the landing page's links
LandingLinks == {"/auth/login", "/auth/register", "/demo"}
LandingLink(href) ==
    /\ route = "/"
    /\ Navigate(href, "link", orphans)

\* a suspended handler of an unmounted page reaches its router.push
OrphanPush(h) ==
    /\ orphans[h] > 0
    /\ Navigate(IF h = "handleSubmit" THEN "/dashboard" ELSE "/resume/analyze", "push",
                [Orphaned(Len(pendingSubmit), BagCardinality(runs)) EXCEPT ![h] = @ - 1])

\* ---- DashboardPage ----
\* Rendered from mockUser for whoever opens the route.
DashboardPush(href) ==
    /\ route = "/dashboard"
    /\ Navigate(href, "push", orphans)

\* Math.random() * 2
RandomIncrements == 0 .. (2 * ScoreUnit - 1)
Min(a, b) == IF a <= b THEN a ELSE b
\* (mutation) the tick without Math.min(95, ..)
DashboardTick_NoCap(d) ==
    /\ route = "/dashboard"
    /\ stats.optimizationScore < 100 * ScoreUnit
    /\ stats' = [stats EXCEPT !.optimizationScore = @ + d]
    /\ UNCHANGED <<browservars, registervars, uploadvars, dbvars, agentvars>>
\* the callback of the interval the mounted page's effect sets; the cleanup
\* clears the interval at unmount
DashboardTick(d) ==
    /\ route = "/dashboard"
    /\ stats' = [stats EXCEPT !.optimizationScore = Min(95 * ScoreUnit, @ + d)]
    /\ UNCHANGED <<browservars, registervars, uploadvars, dbvars, agentvars>>

\* ---- RegisterPage ----
UserRoles == {"applicant", "recruiter"}
NameInputs == {"", "Ada"}
EmailInputs == {"", "ada@example.com"}
PasswordInputs == {"", "1234567", "12345678", "abcdefgh"}
FieldInputs(name) ==
    CASE name \in {"firstName", "lastName"} -> NameInputs
      [] name = "email" -> EmailInputs
      [] OTHER -> PasswordInputs

handleRoleSelect(role) ==
    /\ route = "/auth/register" /\ step = "role"
    /\ selectedRole' = role
    /\ UNCHANGED <<step, isLoading, showPassword, registerError, formData, pendingSubmit>>
    /\ UNCHANGED <<browservars, uploadvars, dashboardvars, dbvars, agentvars>>

handleNext_NoGuard ==
    /\ route = "/auth/register" /\ step = "role"
    /\ step' = "details"
    /\ UNCHANGED <<isLoading, showPassword, registerError, selectedRole, formData, pendingSubmit>>
    /\ UNCHANGED <<browservars, uploadvars, dashboardvars, dbvars, agentvars>>
handleNext ==
    /\ route = "/auth/register" /\ step = "role"
    /\ step' = IF selectedRole = null THEN step ELSE "details"
    /\ UNCHANGED <<isLoading, showPassword, registerError, selectedRole, formData, pendingSubmit>>
    /\ UNCHANGED <<browservars, uploadvars, dashboardvars, dbvars, agentvars>>

\* (mutation) going back starts the form over
handleBack_ClearsForm ==
    /\ route = "/auth/register" /\ step = "details" /\ ~isLoading
    /\ step' = "role"
    /\ registerError' = ""
    /\ formData' = formData0
    /\ UNCHANGED <<isLoading, showPassword, selectedRole, pendingSubmit>>
    /\ UNCHANGED <<browservars, uploadvars, dashboardvars, dbvars, agentvars>>
\* (mutation) the Back button without disabled={isLoading}
handleBack_EnabledWhileLoading ==
    /\ route = "/auth/register" /\ step = "details"
    /\ step' = "role"
    /\ registerError' = ""
    /\ UNCHANGED <<isLoading, showPassword, selectedRole, formData, pendingSubmit>>
    /\ UNCHANGED <<browservars, uploadvars, dashboardvars, dbvars, agentvars>>
handleBack ==
    /\ route = "/auth/register" /\ step = "details" /\ ~isLoading
    /\ step' = "role"
    /\ registerError' = ""
    /\ UNCHANGED <<isLoading, showPassword, selectedRole, formData, pendingSubmit>>
    /\ UNCHANGED <<browservars, uploadvars, dashboardvars, dbvars, agentvars>>

handleChange(name, value) ==
    /\ route = "/auth/register" /\ step = "details" /\ ~isLoading
    /\ formData' = [formData EXCEPT ![name] = value]
    /\ registerError' = ""
    /\ UNCHANGED <<step, isLoading, showPassword, selectedRole, pendingSubmit>>
    /\ UNCHANGED <<browservars, uploadvars, dashboardvars, dbvars, agentvars>>

setShowPassword ==
    /\ route = "/auth/register" /\ step = "details" /\ ~isLoading
    /\ showPassword' = ~showPassword
    /\ UNCHANGED <<step, isLoading, registerError, selectedRole, formData, pendingSubmit>>
    /\ UNCHANGED <<browservars, uploadvars, dashboardvars, dbvars, agentvars>>

\* the message of the Error validateForm throws, null when it returns
validateForm_NoLength(fd) ==
    IF fd.firstName = "" \/ fd.lastName = "" THEN "Please fill in your full name"
    ELSE IF fd.email = "" THEN "Please enter your email address"
    ELSE IF fd.password = "" THEN "Please enter a password"
    ELSE IF fd.password # fd.confirmPassword THEN "Passwords do not match"
    ELSE null
validateForm_MatchBeforeLength(fd) ==
    IF fd.firstName = "" \/ fd.lastName = "" THEN "Please fill in your full name"
    ELSE IF fd.email = "" THEN "Please enter your email address"
    ELSE IF fd.password = "" THEN "Please enter a password"
    ELSE IF fd.password # fd.confirmPassword THEN "Passwords do not match"
    ELSE IF Len(fd.password) < 8 THEN "Password must be at least 8 characters"
    ELSE null
validateForm(fd) ==
    IF fd.firstName = "" \/ fd.lastName = "" THEN "Please fill in your full name"
    ELSE IF fd.email = "" THEN "Please enter your email address"
    ELSE IF fd.password = "" THEN "Please enter a password"
    ELSE IF Len(fd.password) < 8 THEN "Password must be at least 8 characters"
    ELSE IF fd.password # fd.confirmPassword THEN "Passwords do not match"
    ELSE null

\* handleSubmit up to its await: a throw of validateForm runs catch and finally
\* before the page renders again, so isLoading is back to false
handleSubmit ==
    /\ route = "/auth/register" /\ step = "details" /\ ~isLoading
    /\ IF validateForm(formData) # null
       THEN /\ registerError' = validateForm(formData)
            /\ UNCHANGED <<isLoading, pendingSubmit>>
       ELSE /\ orphans.handleSubmit + Len(pendingSubmit) < MaxSubmits
            /\ isLoading' = TRUE
            /\ registerError' = ""
            /\ pendingSubmit' = <<formData>>
    /\ UNCHANGED <<step, showPassword, selectedRole, formData>>
    /\ UNCHANGED <<browservars, uploadvars, dashboardvars, dbvars, agentvars>>

\* handleSubmit after its await: router.push('/dashboard'), then finally
handleSubmit_resume ==
    /\ route = "/auth/register" /\ pendingSubmit # << >>
    /\ Navigate("/dashboard", "push", orphans)

\* an event of the mounted page, handled without leaving it
RegisterPageEvent ==
    \/ \E role \in UserRoles : handleRoleSelect(role)
    \/ handleNext
    \/ handleBack
    \/ \E name \in DOMAIN formData : \E value \in FieldInputs(name) : handleChange(name, value)
    \/ setShowPassword
    \/ handleSubmit

RegisterLinks == {"/auth/login", "/"}
RegisterLink(href) ==
    /\ route = "/auth/register"
    /\ Navigate(href, "link", Orphaned(Len(pendingSubmit), 0))

\* ---- ResumeUploadPage ----
\* config.upload of '@/lib/config': the accepted MIME types and the size limit
\* (in units of the model's file sizes)
acceptedTypes ==
    {"application/pdf",
     "application/vnd.openxmlformats-officedocument.wordprocessingml.document"}
maxSize == 2

FileTypeInputs == {"application/pdf", "image/png"}
FileSizeInputs == {maxSize - 1, maxSize, maxSize + 1}
FileInputs == [type : FileTypeInputs, size : FileSizeInputs]

\* the message validateFile returns, or null
validateFile_AnyType(f) ==
    IF f.size > maxSize THEN "File size must be less than MAX_SIZE MB"
    ELSE null
validateFile(f) ==
    IF f.type \notin acceptedTypes THEN "Please upload a valid file type: ACCEPTED_FILES"
    ELSE IF f.size > maxSize THEN "File size must be less than MAX_SIZE MB"
    ELSE null

\* (mutation) a newly selected file resets the progress display
handleFileSelect_ResetsProgress(selectedFile) ==
    /\ IF validateFile(selectedFile) # null
       THEN /\ uploadError' = validateFile(selectedFile)
            /\ UNCHANGED <<file, uploadState, uploadProgress, processingStatus>>
       ELSE /\ file' = selectedFile
            /\ uploadError' = ""
            /\ uploadState' = "idle"
            /\ uploadProgress' = 0
            /\ processingStatus' = ""
    /\ UNCHANGED runs
    /\ UNCHANGED <<browservars, registervars, dashboardvars, dbvars, agentvars>>
handleFileSelect(selectedFile) ==
    /\ IF validateFile(selectedFile) # null
       THEN /\ uploadError' = validateFile(selectedFile)
            /\ UNCHANGED <<file, uploadState>>
       ELSE /\ file' = selectedFile
            /\ uploadError' = ""
            /\ uploadState' = "idle"
    /\ UNCHANGED <<uploadProgress, processingStatus, runs>>
    /\ UNCHANGED <<browservars, registervars, dashboardvars, dbvars, agentvars>>

\* the drop zone and the file input inside it are rendered while no file is selected
handleDrop(droppedFile) ==
    /\ route = "/resume/upload" /\ file = nullFile
    /\ handleFileSelect(droppedFile)

handleFileInput(selectedFile) ==
    /\ route = "/resume/upload" /\ file = nullFile
    /\ handleFileSelect(selectedFile)

\* the X button of the file preview (never disabled) and the Remove button
removeFile ==
    /\ route = "/resume/upload" /\ file # nullFile
    /\ file' = nullFile
    /\ uploadState' = "idle"
    /\ uploadError' = ""
    /\ UNCHANGED <<uploadProgress, processingStatus, runs>>
    /\ UNCHANGED <<browservars, registervars, dashboardvars, dbvars, agentvars>>

processingSteps ==
    <<"Extracting text and structure...",
      "Identifying key skills and experience...",
      "Analyzing job relevance...",
      "Generating optimization insights...",
      "Creating ATS-friendly format...">>

\* uploadFile up to its first await; the Analyze button is rendered while a
\* file is selected and uploadState is idle
uploadFile ==
    /\ route = "/resume/upload" /\ file # nullFile /\ uploadState = "idle"
    /\ orphans.uploadFile + BagCardinality(runs) < MaxRuns
    /\ uploadState' = "uploading"
    /\ uploadProgress' = 0
    /\ uploadError' = ""
    /\ runs' = runs (+) SetToBag({[phase |-> "uploading", i |-> 0]})
    /\ UNCHANGED <<file, processingStatus>>
    /\ UNCHANGED <<browservars, registervars, dashboardvars, dbvars, agentvars>>

\* uploadFile from one await to the next, for the run suspended at r; the
\* status set before the processing loop is overwritten by the loop's first
\* step before the page renders
uploadFile_resume(r) ==
    /\ route = "/resume/upload" /\ BagIn(r, runs)
    /\ r.phase # "completed"
    /\ LET rest == runs (-) SetToBag({r}) IN
       CASE r.phase = "uploading" /\ r.i < 100 ->
              /\ uploadProgress' = r.i + 10
              /\ runs' = rest (+) SetToBag({[phase |-> "uploading", i |-> r.i + 10]})
              /\ UNCHANGED <<uploadState, processingStatus>>
         [] r.phase = "uploading" /\ r.i = 100 ->
              /\ uploadState' = "processing"
              /\ processingStatus' = processingSteps[1]
              /\ runs' = rest (+) SetToBag({[phase |-> "processing", i |-> 1]})
              /\ UNCHANGED uploadProgress
         [] r.phase = "processing" /\ r.i < Len(processingSteps) ->
              /\ processingStatus' = processingSteps[r.i + 1]
              /\ runs' = rest (+) SetToBag({[phase |-> "processing", i |-> r.i + 1]})
              /\ UNCHANGED <<uploadState, uploadProgress>>
         [] r.phase = "processing" /\ r.i = Len(processingSteps) ->
              /\ uploadState' = "completed"
              /\ processingStatus' = "Resume processed successfully!"
              /\ runs' = rest (+) SetToBag({[phase |-> "completed", i |-> 0]})
              /\ UNCHANGED uploadProgress
    /\ UNCHANGED <<file, uploadError>>
    /\ UNCHANGED <<browservars, registervars, dashboardvars, dbvars, agentvars>>

\* (mutation) the redirect timer set at the start of the run
uploadFile_redirect_Early ==
    /\ route = "/resume/upload" /\ runs # EmptyBag
    /\ Navigate("/resume/analyze", "push", Orphaned(0, BagCardinality(runs) - 1))
\* the timer uploadFile sets on completion: router.push('/resume/analyze')
uploadFile_redirect ==
    /\ route = "/resume/upload" /\ BagIn([phase |-> "completed", i |-> 0], runs)
    /\ Navigate("/resume/analyze", "push", Orphaned(0, BagCardinality(runs) - 1))

\* uploadFile's catch, for the run suspended at r.  The try block as written
\* only calls state setters and awaits timers, none of which throws: the catch
\* runs only when the awaited step of a real upload rejects (SpecUIFaults).
uploadFile_catch_KeepsRunning(r) ==
    /\ route = "/resume/upload" /\ BagIn(r, runs)
    /\ r.phase # "completed"
    /\ uploadState' = "error"
    /\ uploadError' = "Upload failed. Please try again."
    /\ UNCHANGED <<file, uploadProgress, processingStatus, runs>>
    /\ UNCHANGED <<browservars, registervars, dashboardvars, dbvars, agentvars>>
uploadFile_catch(r) ==
    /\ route = "/resume/upload" /\ BagIn(r, runs)
    /\ r.phase # "completed"
    /\ uploadState' = "error"
    /\ uploadError' = "Upload failed. Please try again."
    /\ runs' = runs (-) SetToBag({r})
    /\ UNCHANGED <<file, uploadProgress, processingStatus>>
    /\ UNCHANGED <<browservars, registervars, dashboardvars, dbvars, agentvars>>

InitUI ==
    /\ route = "/"
    /\ navigation = "load"
    /\ session = "none"
    /\ orphans = NoOrphans
    /\ RegisterPageInit
    /\ ResumeUploadPageInit
    /\ DashboardPageInit

NextUI ==
    \/ \E url \in Routes : Visit(url)
    \/ \E href \in LandingLinks : LandingLink(href)
    \/ \E h \in DOMAIN orphans : OrphanPush(h)
    \/ \E href \in quickActions \cup {"/settings"} : DashboardPush(href)
    \/ \E d \in RandomIncrements : DashboardTick(d)
    \/ RegisterPageEvent
    \/ handleSubmit_resume
    \/ \E href \in RegisterLinks : RegisterLink(href)
    \/ \E droppedFile \in FileInputs : handleDrop(droppedFile)
    \/ \E selectedFile \in FileInputs : handleFileInput(selectedFile)
    \/ removeFile
    \/ uploadFile
    \/ \E r \in BagToSet(runs) : uploadFile_resume(r)
    \/ uploadFile_redirect

\* the frontend with an upload whose awaited steps may reject
NextUIFaults ==
    \/ NextUI
    \/ \E r \in BagToSet(runs) : uploadFile_catch(r)

(***************************************************************************)
(* Resume generation.  The orchestrator serves POST /api/generate-resume   *)
(* by calling the agents of the flow; an agent asks the primary LLM, tries *)
(* again up to retry_attempts times while the LLM fails, and then answers  *)
(* with its simplified rule-based algorithm (llm_fallback).                *)
(***************************************************************************)
Agents ==
    <<"ResumeParserAgent", "JDAnalyzerAgent", "MatchingAgent",
      "ContentGeneratorAgent", "FeedbackAgent">>
AgentIds == 1..Len(Agents)
retry_attempts == 3
llm_fallback == TRUE

InitAgents ==
    /\ orch = "idle"
    /\ called = {}
    /\ returned = {}
    /\ results = [k \in AgentIds |-> "none"]
    /\ failures = [k \in AgentIds |-> 0]
    /\ llmAvailable = TRUE
    /\ response = "none"

\* F->>A: POST /api/generate-resume, A->>O: delegate to the orchestrator
GenerateResume ==
    /\ orch = "idle"
    /\ orch' = "running"
    /\ called' = {}
    /\ returned' = {}
    /\ results' = [k \in AgentIds |-> "none"]
    /\ failures' = [k \in AgentIds |-> 0]
    /\ response' = "none"
    /\ UNCHANGED <<llmAvailable, dbvars, uivars, dbvars, uivars>>

\* the orchestrator awaits an agent's result before it calls the next one
MayCall_Gather(k) == k \notin called
MayCall(k) == k \notin called /\ \A j \in 1..(k - 1) : j \in returned

CallAgent(k) ==
    /\ orch = "running"
    /\ MayCall(k)
    /\ called' = called \cup {k}
    /\ UNCHANGED <<orch, returned, results, failures, llmAvailable, response, dbvars, uivars>>

Working(k) == k \in called /\ k \notin returned /\ results[k] = "none"

LLMCallSucceeds(k) ==
    /\ Working(k) /\ failures[k] < retry_attempts
    /\ llmAvailable
    /\ results' = [results EXCEPT ![k] = "llm"]
    /\ UNCHANGED <<orch, called, returned, failures, llmAvailable, response, dbvars, uivars>>

LLMCallFails(k) ==
    /\ Working(k) /\ failures[k] < retry_attempts
    /\ ~llmAvailable
    /\ failures' = [failures EXCEPT ![k] = @ + 1]
    /\ UNCHANGED <<orch, called, returned, results, llmAvailable, response, dbvars, uivars>>

\* the agent gives up on the LLM
FallbackDue_Always(k) == TRUE
FallbackDue(k) == failures[k] = retry_attempts

SimplifiedAlgorithm(k) ==
    /\ Working(k)
    /\ llm_fallback /\ FallbackDue(k)
    /\ results' = [results EXCEPT ![k] = "fallback"]
    /\ UNCHANGED <<orch, called, returned, failures, llmAvailable, response, dbvars, uivars>>

AgentReturns(k) ==
    /\ k \in called /\ k \notin returned /\ results[k] # "none"
    /\ returned' = returned \cup {k}
    /\ UNCHANGED <<orch, called, results, failures, llmAvailable, response, dbvars, uivars>>

\* O-->>A: complete results, A-->>F: response with resume + feedback
Respond ==
    /\ orch = "running"
    /\ \A k \in AgentIds : k \in called => k \in returned
    /\ Len(Agents) \in called
    /\ response' = "sent"
    /\ orch' = "idle"
    /\ UNCHANGED <<called, returned, results, failures, llmAvailable, dbvars, uivars>>

\* the LLM provider goes down and comes back
LLMOutage ==
    /\ llmAvailable' = ~llmAvailable
    /\ UNCHANGED <<orch, called, returned, results, failures, response, dbvars, uivars>>

AgentStep ==
    \E k \in AgentIds :
        \/ LLMCallSucceeds(k)
        \/ LLMCallFails(k)
        \/ SimplifiedAlgorithm(k)
        \/ AgentReturns(k)
OrchestratorStep ==
    \/ \E k \in AgentIds : CallAgent(k)
    \/ Respond

NextAgents ==
    \/ GenerateResume
    \/ OrchestratorStep
    \/ AgentStep
    \/ LLMOutage

Init == InitDB /\ InitUI /\ InitAgents

SpecRLS == Init /\ [][NextRLS]_vars
SpecJobs == Init /\ [][NextJobs]_vars
SpecProfiles == Init /\ [][NextProfiles]_vars
SpecCascade == Init /\ [][NextCascade]_vars
SpecUI == Init /\ [][NextUI]_vars
\* the timers of a mounted page fire: a run suspended at an await goes on, and
\* the redirect timer of a completed run runs out
uploadFile_timers == \E r \in BagToSet(runs) : uploadFile_resume(r)
SpecUIFair ==
    Init /\ [][NextUI]_vars
        /\ WF_vars(uploadFile_timers) /\ WF_vars(uploadFile_redirect)
        /\ WF_vars(handleSubmit_resume)
SpecUIFaults == Init /\ [][NextUIFaults]_vars
SpecAgents == Init /\ [][NextAgents]_vars
\* an awaited call keeps running: the orchestrator and the agents take their steps
SpecAgentsFair ==
    Init /\ [][NextAgents]_vars
        /\ WF_vars(OrchestratorStep) /\ WF_vars(AgentStep)

(***************************************************************************)
(* Row-level security: claims C1 to C4.                                    *)
(***************************************************************************)
JobOwnedBy(uid, job_id) == \E j \in jobs : j.id = job_id /\ j.user_id = uid

\* C1: a user can SELECT an applications row if and only if the user is the
\* row's applicant_id or the user_id of the job its job_id refers to; every
\* other user sees none of it.
C1_ApplicationVisibleIffApplicantOrJobOwner ==
    \A uid \in UserIds : \A x \in applications :
        (x \in VisibleApplications(uid)) <=>
            (uid = x.applicant_id \/ JobOwnedBy(uid, x.job_id))

\* an application to a job of somebody else: both see it, and the job's owner
\* is no recruiter, so it reads its own job through the FOR ALL policy alone
C1_Witness ==
    \E x \in applications, j \in jobs :
        /\ j.id = x.job_id /\ x.applicant_id # NULL /\ j.user_id # x.applicant_id
        /\ x \in VisibleApplications(j.user_id)
        /\ x \in VisibleApplications(x.applicant_id)
        /\ \A u \in users : u.id = j.user_id => u.role = "applicant"

\* C2: every recruiter can view every jobs row, and a jobs row is inserted,
\* updated or deleted only by the user whose id equals its user_id; no
\* recruiter ever changes or deletes another recruiter's job.
RecruitersSeeAllJobs ==
    \A u \in users : u.role = "recruiter" => \A j \in jobs : j \in VisibleJobs(u.id)
JobsWrittenByOwnerOnly ==
    actor' # SERVICE =>
        /\ \A new \in jobs' \ jobs : new.user_id = actor'
        /\ \A old \in jobs \ jobs' : old.user_id = actor'
C2_RecruitersViewAllEditOwn == []RecruitersSeeAllJobs /\ [][JobsWrittenByOwnerOnly]_vars

\* a job its owner has closed, in front of another recruiter who sees it
C2_Witness ==
    \E j \in jobs, u \in users :
        /\ u.role = "recruiter" /\ u.id # j.user_id
        /\ j.status = "closed" /\ actor = j.user_id
        /\ j \in VisibleJobs(u.id)

\* C3: a users row and a profiles row are visible to and updatable by only the
\* user they belong to, and a profile is inserted only with the inserting
\* user's own id as user_id; no user, a recruiter included, reads or changes
\* another user's users row or profile.
OwnRowsOnlyVisible ==
    \A uid \in UserIds :
        /\ \A u \in users : (u \in VisibleUsers(uid)) <=> (u.id = uid)
        /\ \A p \in profiles : (p \in VisibleProfiles(uid)) <=> (p.user_id = uid)
OwnRowsOnlyWritten ==
    actor' # SERVICE =>
        /\ \A u \in (users' \ users) \cup (users \ users') : u.id = actor'
        /\ \A p \in (profiles' \ profiles) \cup (profiles \ profiles') : p.user_id = actor'
C4_Step ==
    actor' # SERVICE =>
        \A new \in applications' \ applications :
            IF \E old \in applications : old.id = new.id
            THEN \A old \in applications : old.id = new.id => JobOwnedBy(actor', old.job_id)
            ELSE new.applicant_id = actor'
C4_ApplicantCreatesJobOwnerUpdates == [][C4_Step]_vars

\* an application whose applicant the job's owner has cleared: only an update does that
C4_Witness ==
    \E x \in applications :
        x.applicant_id = NULL /\ actor # SERVICE /\ JobOwnedBy(actor, x.job_id)

(***************************************************************************)
(* The frontend: claims C5 to C8.                                          *)
(***************************************************************************)
\* C5: /dashboard and /resume/upload are protected routes: the dashboard page
\* and the resume upload page are on screen only for an authenticated visitor.
C5_ProtectedRoutesNeedSession == route \in ProtectedRoutes => session # "none"

\* C6: registration navigates to /dashboard only after a submission whose form
\* data passed validation (first name, last name and email non-empty, password
\* of at least 8 characters and equal to confirmPassword); while the
\* submission is pending the form still holds the data that was validated.
FormDataValid(fd) ==
    /\ fd.firstName # "" /\ fd.lastName # "" /\ fd.email # ""
    /\ Len(fd.password) >= 8
    /\ fd.password = fd.confirmPassword
PendingSubmitValidated ==
    pendingSubmit # << >> =>
        /\ route = "/auth/register"
        /\ FormDataValid(pendingSubmit[1])
        /\ formData = pendingSubmit[1]
PushToDashboardAfterSubmit ==
    /\ (route # "/dashboard" /\ route' = "/dashboard" /\ navigation' = "push") =>
           (pendingSubmit # << >> \/ orphans.handleSubmit > 0)
    /\ orphans'.handleSubmit > orphans.handleSubmit => pendingSubmit # << >>
C6_NavigatesOnlyAfterValidSubmit ==
    []PendingSubmitValidated /\ [][PushToDashboardAfterSubmit]_vars

\* the dashboard, reached by the router.push of a submission
C6_Witness == route = "/dashboard" /\ navigation = "push"

\* C7: a file becomes the selected file, dropped or picked, only if its MIME
\* type is an accepted one and its size is within the limit; the selected file
\* always passed validation and an upload run is started only for such a file.
FileAccepted(f) == f.type \in acceptedTypes /\ f.size <= maxSize
SelectedFileAccepted == file # nullFile => FileAccepted(file)
RunStartedForAcceptedFile ==
    BagCardinality(runs') > BagCardinality(runs) => file # nullFile /\ FileAccepted(file)
C7_SelectedFilePassedValidation ==
    []SelectedFileAccepted /\ [][RunStartedForAcceptedFile]_vars

\* an upload run in flight for a selected file of exactly the size limit
C7_Witness ==
    /\ file # nullFile /\ file.size = maxSize
    /\ uploadState = "uploading" /\ runs # EmptyBag

\* C8: the details step is shown only with a role chosen; handleNext changes
\* nothing while no role is selected; no event of the page clears a chosen role.
DetailsStepHasRole == step = "details" => selectedRole \in UserRoles
RoleKept ==
    /\ (handleNext /\ selectedRole = null) => UNCHANGED vars
    /\ (RegisterPageEvent /\ selectedRole \in UserRoles) => selectedRole' \in UserRoles
C8_DetailsOnlyWithRole == []DetailsStepHasRole /\ [][RoleKept]_vars

\* back on the role step from the details step, the role still chosen
C8_Witness ==
    /\ route = "/auth/register" /\ step = "role"
    /\ selectedRole = "recruiter" /\ formData.firstName = "Ada"

(***************************************************************************)
(* Resume generation: claims C9 and C10.                                   *)
(***************************************************************************)
\* C9: a request is answered although the primary LLM is unavailable: every
\* request eventually gets its response, every agent's result in it is the
\* LLM's or the simplified algorithm's, and the simplified algorithm is used
\* only after an LLM call of that agent failed.
FallbackOnlyAfterFailure ==
    /\ \A k \in AgentIds : results[k] = "fallback" => failures[k] > 0
    /\ response = "sent" => \A k \in AgentIds : results[k] \in {"llm", "fallback"}
AgentId(name) == CHOOSE k \in AgentIds : Agents[k] = name
CalledAfterReturnOf(next, previous) ==
    AgentId(next) \in called => AgentId(previous) \in returned
C10_AgentsRunInSequence ==
    /\ CalledAfterReturnOf("JDAnalyzerAgent", "ResumeParserAgent")
    /\ CalledAfterReturnOf("MatchingAgent", "JDAnalyzerAgent")
    /\ CalledAfterReturnOf("ContentGeneratorAgent", "MatchingAgent")
    /\ CalledAfterReturnOf("FeedbackAgent", "ContentGeneratorAgent")
    /\ Cardinality(called \ returned) <= 1
    /\ response = "sent" => AgentId("FeedbackAgent") \in returned

\* MatchingAgent at work, the two agents before it done, the two after it not called
C10_Witness ==
    /\ orch = "running"
    /\ called = {1, 2, 3} /\ returned = {1, 2}

(***************************************************************************)
(* The register page's errors: claim C11.                                  *)
(***************************************************************************)
\* C11: a submission that fails validation shows the message of the first
\* failing check in the order full name, email, password present, password
\* length, passwords match; it does not navigate, isLoading is false again, and
\* step, selectedRole and the form data are unchanged.
CheckFails(i, fd) ==
    CASE i = 1 -> fd.firstName = "" \/ fd.lastName = ""
      [] i = 2 -> fd.email = ""
      [] i = 3 -> fd.password = ""
      [] i = 4 -> Len(fd.password) < 8
      [] i = 5 -> fd.password # fd.confirmPassword
CheckMessage(i) ==
    CASE i = 1 -> "Please fill in your full name"
      [] i = 2 -> "Please enter your email address"
      [] i = 3 -> "Please enter a password"
      [] i = 4 -> "Password must be at least 8 characters"
      [] i = 5 -> "Passwords do not match"
FailedSubmitShowsFirstError ==
    (handleSubmit /\ \E i \in 1..5 : CheckFails(i, formData)) =>
        /\ \E i \in 1..5 :
              /\ CheckFails(i, formData)
              /\ \A j \in 1..(i - 1) : ~CheckFails(j, formData)
              /\ registerError' = CheckMessage(i)
        /\ route' = route /\ pendingSubmit' = << >>
        /\ isLoading' = FALSE
        /\ step' = step /\ selectedRole' = selectedRole /\ formData' = formData
C11_FailedSubmitShowsFirstError == [][FailedSubmitShowsFirstError]_vars

\* a short password with a different confirmation: the length message is shown
C11_Witness ==
    /\ route = "/auth/register" /\ step = "details" /\ ~isLoading
    /\ formData.password = "1234567" /\ formData.confirmPassword = "abcdefgh"
    /\ registerError = "Password must be at least 8 characters"

(***************************************************************************)
(* The upload page's failures: claim C12.                                  *)
(***************************************************************************)
\* C12: when uploading or processing throws, uploadState becomes 'error' and
\* the message 'Upload failed. Please try again.'; uploadState becomes 'error'
\* in no other way; the run that failed is over, so it sets 'completed' and
\* redirects no more; and the selected file is kept.
UploadFails == \E r \in BagToSet(runs) : uploadFile_catch(r)
FailureShowsError ==
    /\ UploadFails =>
          /\ uploadState' = "error"
          /\ uploadError' = "Upload failed. Please try again."
          /\ BagCardinality(runs') = BagCardinality(runs) - 1
          /\ file' = file /\ route' = route
    /\ (uploadState' = "error" /\ uploadState # "error") => UploadFails
C12_UploadFailureShowsError == [][FailureShowsError]_vars

\* the failure of the only run, during processing, with the file still selected
C12_Witness ==
    /\ uploadState = "error" /\ uploadError = "Upload failed. Please try again."
    /\ file # nullFile /\ runs = EmptyBag
    /\ processingStatus = processingSteps[2]

(***************************************************************************)
(* The schema's constraints: claims C13 to C17.                            *)
(***************************************************************************)
\* C13: users and profiles are one-to-one: every user has at most one
\* profiles row.
C13_AtMostOneProfilePerUser ==
    \A u \in users : Cardinality({p \in profiles : p.user_id = u.id}) <= 1

\* C14: every profiles row has a personal_info with the keys 'name' and
\* 'contact' and an education that is a JSON array, whatever values an insert
\* or update offered for the two columns, absent ones included.
C14_ProfilesRowsValidated ==
    \A p \in profiles :
        /\ JsonHasKey(p.personal_info, "name") = "t"
        /\ JsonHasKey(p.personal_info, "contact") = "t"
        /\ JsonIsArray(p.education) = "t"

\* C15: every applications row's status is one of submitted, reviewed,
\* shortlisted, rejected, offered, hired, every jobs row's status one of
\* active, filled, closed, and every users row's role applicant or recruiter.
C15_StatusAndRoleInDomain ==
    /\ \A x \in applications : x.status \in AppStatuses
    /\ \A j \in jobs : j.status \in JobStatuses
    /\ \A u \in users : u.role \in Roles

\* C17: every jobs row belongs to a recruiter: its user_id is the id of a
\* users row whose role is 'recruiter'.
C17_JobsBelongToRecruiters ==
    \A j \in jobs : \E u \in users : u.id = j.user_id /\ u.role = "recruiter"

\* C16: every non-null profiles.user_id, jobs.user_id and
\* applications.applicant_id is the id of a users row and every non-null
\* applications.job_id the id of a jobs row; a statement that removes a user
\* removes exactly the profiles, jobs and applications of that user and the
\* applications to those jobs, and one that removes a job removes exactly the
\* applications to it.
ReferencesResolve ==
    /\ \A p \in profiles : FkUser(p.user_id)
    /\ \A j \in jobs : FkUser(j.user_id)
    /\ \A x \in applications : FkUser(x.applicant_id) /\ FkJob(x.job_id)
DeleteCascades ==
    /\ \A u \in users \ users' :
          LET gone == {j.id : j \in {k \in jobs : k.user_id = u.id}}
          IN  /\ profiles' = {p \in profiles : p.user_id # u.id}
              /\ jobs' = {j \in jobs : j.user_id # u.id}
              /\ applications' = {x \in applications :
                                      x.applicant_id # u.id /\ x.job_id \notin gone}
    /\ users' = users =>
          \A j \in jobs \ jobs' :
              applications' = {x \in applications : x.job_id # j.id}
C16_ReferencesResolveAndCascade == []ReferencesResolve /\ [][DeleteCascades]_vars
\* user 1 was deleted with a profile: the second profile is left, and user 2
\* has applied to their own job
C16_Witness ==
    /\ users = {[id |-> 2, role |-> "applicant"]}
    /\ \E p \in profiles : p.id = 2 /\ p.user_id = 2
    /\ \A p \in profiles : p.id # 1
    /\ \E x \in applications : x.applicant_id = 2 /\ x.job_id = 1
    /\ \E j \in jobs : j.id = 1 /\ j.user_id = 2

(***************************************************************************)
(* The upload page's file and runs: claims C18 to C20.                     *)
(***************************************************************************)
\* C18: a selected file is strictly smaller than config.upload.maxSize, as
\* the message 'File size must be less than {MAX_SIZE}MB' says.
C18_SelectedFileBelowMaxSize == file # nullFile => file.size < maxSize

\* C19: while uploadState is 'uploading', 'processing' or 'completed' a file
\* is selected.
C19_RunStatesHaveFile ==
    uploadState \in {"uploading", "processing", "completed"} => file # nullFile

\* C20: at most one run of uploadFile is in flight on the page.
C20_AtMostOneRunInFlight == BagCardinality(runs) <= 1

(***************************************************************************)
(* The upload run's course: claims C21 to C24.                             *)
(***************************************************************************)
\* C21: while no file is selected on the upload page (after removeFile, until
\* a new file is selected) no step changes uploadState, uploadProgress or
\* processingStatus, and none pushes /resume/analyze: a run started before
\* the removal has no effect.
NoFileNoRunEffect ==
    (route = "/resume/upload" /\ file = nullFile /\ file' = nullFile) =>
        /\ route' = "/resume/upload" =>
              UNCHANGED <<uploadState, uploadProgress, processingStatus>>
        /\ ~(route' = "/resume/analyze" /\ navigation' = "push")
C21_RemovedFileStopsRun == [][NoFileNoRunEffect]_vars

\* C22: while a run of uploadFile is in flight on the page, uploadState moves
\* only forward (idle, uploading, processing, completed, or to error);
\* uploadProgress does not decrease while uploadState stays 'uploading';
\* 'processing' is entered at uploadProgress 100; the processing messages
\* follow their listed order; 'completed' is entered after the last of them.
ForwardStates ==
    {<<"idle", "uploading">>, <<"uploading", "processing">>,
     <<"processing", "completed">>} \cup
    {<<st, "error">> : st \in {"idle", "uploading", "processing"}}
StatusIndex(status) ==
    IF \E n \in DOMAIN processingSteps : processingSteps[n] = status
    THEN CHOOSE n \in DOMAIN processingSteps : processingSteps[n] = status
    ELSE 0
RunInFlightStep ==
    /\ route = "/resume/upload" /\ route' = "/resume/upload"
    /\ runs # EmptyBag /\ runs' # EmptyBag
RunMovesForward ==
    RunInFlightStep =>
        /\ uploadState' # uploadState => <<uploadState, uploadState'>> \in ForwardStates
        /\ (uploadState = "uploading" /\ uploadState' = "uploading") =>
              uploadProgress' \in {uploadProgress, uploadProgress + 10}
        /\ (uploadState = "uploading" /\ uploadState' = "processing") =>
              uploadProgress = 100 /\ processingStatus' = processingSteps[1]
        /\ (uploadState = "processing" /\ uploadState' = "processing") =>
              StatusIndex(processingStatus') \in
                  {StatusIndex(processingStatus), StatusIndex(processingStatus) + 1}
        /\ (uploadState = "processing" /\ uploadState' = "completed") =>
              processingStatus = processingSteps[Len(processingSteps)]
C22_RunMovesForward == [][RunMovesForward]_vars

\* C23: a run of uploadFile in flight on the page leads to uploadState
\* 'completed' with the status 'Resume processed successfully!', and a
\* completed run leads to the push of /resume/analyze, unless the page is
\* left or reloaded first; a push of /resume/analyze from the page is made by
\* a run that has set 'completed' (or by a run of an earlier mount), and it
\* ends one run.
CompletedRun == [phase |-> "completed", i |-> 0]
RunInFlight ==
    /\ route = "/resume/upload"
    /\ \E r \in BagToSet(runs) : r # CompletedRun
PageGone == route # "/resume/upload" \/ runs = EmptyBag
ShowsCompleted ==
    /\ route = "/resume/upload"
    /\ uploadState = "completed"
    /\ processingStatus = "Resume processed successfully!"
RunsInFlight == orphans.uploadFile + BagCardinality(runs)
RedirectAfterCompleted ==
    (route = "/resume/upload" /\ route' = "/resume/analyze" /\ navigation' = "push") =>
        /\ BagIn(CompletedRun, runs) \/ orphans.uploadFile > 0
        /\ RunsInFlight' = RunsInFlight - 1
C23_RunCompletesThenRedirects ==
    /\ RunInFlight ~> (ShowsCompleted \/ PageGone)
    /\ (route = "/resume/upload" /\ BagIn(CompletedRun, runs)) ~> PageGone
    /\ [][RedirectAfterCompleted]_vars
\* the run's redirect has just been made: /resume/analyze was pushed
C23_Witness ==
    /\ route = "/resume/analyze" /\ navigation = "push"
    /\ orphans = NoOrphans

\* C24: selecting a file that fails validation sets only the error message
\* (file, uploadState, uploadProgress, processingStatus unchanged); selecting
\* one that passes makes it the selected file, clears the error and sets
\* uploadState 'idle', with uploadProgress and processingStatus unchanged.
FileSelectEffect ==
    \A f \in FileInputs :
        (handleDrop(f) \/ handleFileInput(f)) =>
            IF FileAccepted(f)
            THEN /\ file' = f /\ uploadError' = "" /\ uploadState' = "idle"
                 /\ UNCHANGED <<uploadProgress, processingStatus>>
            ELSE /\ uploadError' # ""
                 /\ UNCHANGED <<file, uploadState, uploadProgress, processingStatus>>
C24_FileSelectEffect == [][FileSelectEffect]_vars
\* a file was selected while an earlier run's progress and status were on
\* display: both are still there
C24_Witness ==
    /\ route = "/resume/upload"
    /\ file # nullFile /\ uploadState = "idle" /\ uploadError = ""
    /\ uploadProgress = 100 /\ processingStatus = processingSteps[1]

(***************************************************************************)
(* The register page's loading flag and steps: claims C25 and C26.         *)
(***************************************************************************)
\* C25: isLoading is true exactly while a submission of the page is pending;
\* a submission in progress leads to isLoading false; while isLoading stays
\* true no further submission starts and formData, selectedRole and step do
\* not change.
LoadingIffPending == isLoading <=> pendingSubmit # << >>
LoadingFreezesForm ==
    (isLoading /\ isLoading') =>
        UNCHANGED <<formData, selectedRole, step, pendingSubmit>>
C25_LoadingWhilePending ==
    /\ []LoadingIffPending
    /\ isLoading ~> ~isLoading
    /\ [][LoadingFreezesForm]_vars
\* a recruiter's valid form is being submitted
C25_Witness ==
    /\ route = "/auth/register" /\ step = "details"
    /\ isLoading /\ pendingSubmit = <<formData>>
    /\ selectedRole = "recruiter"
    /\ registerError = ""

\* C26: handleBack shows the role step and clears the error, with selectedRole
\* and formData unchanged and a role still selected; handleNext then shows the
\* details step again, with selectedRole and formData unchanged.
BackKeepsEntries ==
    handleBack =>
        /\ step' = "role" /\ registerError' = ""
        /\ UNCHANGED <<selectedRole, formData>>
        /\ selectedRole' # null
ContinueKeepsEntries ==
    handleNext =>
        /\ UNCHANGED <<selectedRole, formData>>
        /\ selectedRole # null => step' = "details"
C26_BackAndContinueKeepEntries == [][BackKeepsEntries /\ ContinueKeepsEntries]_vars
\* back on the role step with the role and the entered data still there
C26_Witness ==
    /\ route = "/auth/register" /\ step = "role"
    /\ selectedRole = "applicant"
    /\ formData.firstName = "Ada" /\ formData.email = "ada@example.com"
    /\ formData.password = "12345678"

(***************************************************************************)
(* The dashboard's statistics: claim C27.                                  *)
(***************************************************************************)
\* C27: the dashboard's optimizationScore and its display Math.round(score)
\* are between 87 and 95; a tick does not decrease the score and leaves
\* resumesAnalyzed, matchesGenerated and lastActivity as they are; stats
\* changes only by a tick or by a mount, which starts from mockUser.stats;
\* while the page is not mounted no step is a tick.
DisplayedScore == (2 * stats.optimizationScore + ScoreUnit) \div (2 * ScoreUnit)
ScoreInRange ==
    /\ stats.optimizationScore \in (87 * ScoreUnit) .. (95 * ScoreUnit)
    /\ DisplayedScore \in 87 .. 95
    /\ stats.resumesAnalyzed = mockUser.stats.resumesAnalyzed
    /\ stats.matchesGenerated = mockUser.stats.matchesGenerated
    /\ stats.lastActivity = mockUser.stats.lastActivity
TickOnlyRaisesScore ==
    /\ (\E d \in RandomIncrements : DashboardTick(d)) =>
          /\ stats'.optimizationScore >= stats.optimizationScore
          /\ stats' = [stats EXCEPT !.optimizationScore = stats'.optimizationScore]
    /\ stats' # stats =>
          (\E d \in RandomIncrements : DashboardTick(d)) \/ stats' = mockUser.stats
    /\ route # "/dashboard" => stats = mockUser.stats /\ stats' = mockUser.stats
C27_ScoreRisesToAtMost95 == []ScoreInRange /\ [][TickOnlyRaisesScore]_vars
\* the score has reached the cap
C27_Witness ==
    /\ route = "/dashboard"
    /\ stats.optimizationScore = 95 * ScoreUnit

====
